---- MODULE Spec2Model ----
(***************************************************************************)
(* Typed-array allocation and the Int8Array constructor of boa             *)
(* (boa/src/builtins/typed_array).  Every call runs to completion on one   *)
(* thread, so a call is one atomic action; the order of the collaborator   *)
(* calls it makes is kept in `log`.                                        *)
(***************************************************************************)
EXTENDS Integers, Sequences, FiniteSets, TLC

\* ---------------------------------------------------------------- bounds
\* width of usize in the model (the platform word, scaled down)
UsizeBits == 5
\* largest length of a typed-array or array-like first argument
MaxSrcLen == 3
\* byte length of the non-empty ArrayBuffer first argument
BufferLen == 10

UsizeLimit == 2 ^ UsizeBits
IsizeMax == 2 ^ (UsizeBits - 1) - 1
MaxSafeInteger == 2 ^ (UsizeBits - 2) - 1

\* ------------------------------------------------------------ value model
TypedArrayName ==
    { "Int8Array", "Uint8Array", "Uint8ClampedArray", "Int16Array",
      "Uint16Array", "Int32Array", "Uint32Array", "BigInt64Array",
      "BigUint64Array", "Float32Array", "Float64Array" }

ContentType == { "Number", "BigInt" }

None == [some |-> FALSE, val |-> 0]
Some(n) == [some |-> TRUE, val |-> n]

Ok(v) == [status |-> "Ok", value |-> v, error |-> "none", origin |-> "none"]
Err(kind, origin) == [status |-> "Err", value |-> "none", error |-> kind, origin |-> origin]
\* a Rust panic unwinds through every caller: it is neither Ok nor Err
Panic(msg) == [status |-> "Panic", value |-> "none", error |-> "panic", origin |-> msg]

DefaultProto == "%TypedArray.prototype%"
CustomProto == "newTarget.prototype"

\* JsValue: primitives.  A number is kept in halves so that ToIndex truncates.
JsUndefined == [type |-> "undefined"]
JsSymbol == [type |-> "symbol"]
JsInfinity == [type |-> "infinity"]
JsNumber(halves) == [type |-> "number", halves |-> halves]

\* JsValue: objects.  `proto` is how a read of the "prototype" property ends,
\* `iterator` / `replace` how a lookup of @@iterator / @@replace ends.
JsFunction(proto) == [type |-> "object", class |-> "function", proto |-> proto]
JsArrayBuffer(n) == [type |-> "object", class |-> "array_buffer", byte_length |-> n]
JsOrdinary(it, rp, elems) ==
    [type |-> "object", class |-> "ordinary", iterator |-> it, replace |-> rp,
     elems |-> elems]

is_undefined(v) == v.type = "undefined"
is_object(v) == v.type = "object"
is_typed_array(obj) == obj.class = "typed_array"
is_array_buffer(obj) == obj.class = "array_buffer"

Zeros(n) == [i \in 1..n |-> 0]

\* ------------------------------------------ external object model (callers)
\* JsValue::to_index: ToIndex of a primitive.  `undefined` is 0, a number is
\* truncated toward zero, a negative or too large integer is a RangeError,
\* a Symbol cannot be converted to a number (TypeError).
to_index(v) ==
    IF v.type = "undefined" THEN Ok(0)
    ELSE IF v.type = "symbol" THEN Err("TypeError", "to_index")
    ELSE IF v.type = "infinity" THEN Err("RangeError", "to_index")
    ELSE LET integer == IF v.halves >= 0 THEN v.halves \div 2
                        ELSE -((-v.halves) \div 2)
         IN IF integer < 0 \/ integer > MaxSafeInteger
            THEN Err("RangeError", "to_index")
            ELSE Ok(integer)

\* JsObject::__get__(PROTOTYPE): a read of the object's "prototype" property.
get_prototype_property(obj) ==
    CASE obj.proto = "throws" -> Err("Thrown", "get_prototype")
      [] obj.proto = "object" -> Ok([type |-> "object", object |-> CustomProto])
      [] OTHER -> Ok([type |-> "number", object |-> "none"])

\* JsValue::get_method(key): undefined when the property is absent.
get_method(obj, key) ==
    LET slot == IF key = "@@iterator" THEN obj.iterator ELSE obj.replace
    IN CASE slot = "throws" -> Err("Thrown", "get_method")
         [] slot = "present" -> Ok([type |-> "object", object |-> key])
         [] OTHER -> Ok([type |-> "undefined", object |-> "none"])

\* --------------------------------------------------- integer_indexed_object.rs
\* TypedArrayName::element_size
element_size(name) ==
    CASE name \in {"Int8Array", "Uint8Array", "Uint8ClampedArray"} -> 1
      [] name \in {"Int16Array", "Uint16Array"} -> 2
      [] name \in {"Int32Array", "Uint32Array", "Float32Array"} -> 4
      [] name \in {"BigInt64Array", "BigUint64Array", "Float64Array"} -> 8

\* create_byte_data_block reserving the bytes without creating them
\* (Vec::with_capacity(size) in place of vec![0u8; size])
create_byte_data_block_reserved_only(size) ==
    IF size > IsizeMax THEN Panic("capacity overflow")
    ELSE Ok([inner |-> <<>>])

\* DataBlock::create_byte_data_block: vec![0u8; size].  A Vec of more than
\* isize::MAX bytes panics with "capacity overflow"; no RangeError is raised.
create_byte_data_block(size) ==
    IF size > IsizeMax THEN Panic("capacity overflow")
    ELSE Ok([inner |-> Zeros(size)])

\* IntegerIndexedObject::new without the BigInt arm of the match
IntegerIndexedObject_new_number_only(prototype, constructor_name) ==
    [ prototype |-> prototype,
      viewed_array_buffer |-> [inner |-> <<>>],
      typed_array_name |-> constructor_name,
      content_type |-> "Number",
      byte_length |-> 0,
      byte_offset |-> 0,
      array_length |-> 0 ]

\* IntegerIndexedObject::new
IntegerIndexedObject_new(prototype, constructor_name) ==
    LET content_type ==
            IF constructor_name \in {"BigInt64Array", "BigUint64Array"}
            THEN "BigInt" ELSE "Number"
    IN [ prototype |-> prototype,
         viewed_array_buffer |-> [inner |-> <<>>],
         typed_array_name |-> constructor_name,
         content_type |-> content_type,
         byte_length |-> 0,
         byte_offset |-> 0,
         array_length |-> 0 ]

\* IntegerIndexedObject::allocate_typed_array_buffer.  `element_size * length`
\* is a usize product: with overflow checks (debug build) an overflow panics,
\* without them (release build) it wraps modulo 2^UsizeBits.
allocate_typed_array_buffer(prototype, constructor_name, length, checks) ==
    LET content_type ==
            IF constructor_name \in {"BigInt64Array", "BigUint64Array"}
            THEN "BigInt" ELSE "Number"
        product == element_size(constructor_name) * length
        byte_length == product % UsizeLimit
        data == create_byte_data_block(byte_length)
    IN IF product >= UsizeLimit /\ checks
       THEN Panic("attempt to multiply with overflow")
       ELSE IF data.status # "Ok" THEN data
       ELSE Ok([ prototype |-> prototype,
                 typed_array_name |-> constructor_name,
                 content_type |-> content_type,
                 viewed_array_buffer |-> data.value,
                 byte_length |-> byte_length,
                 byte_offset |-> 0,
                 array_length |-> length ])

\* the JsValue wrapping an IntegerIndexedObject (`obj.into()`)
JsTypedArray(view) == [type |-> "object", class |-> "typed_array", view |-> view]

\* ------------------------------------------------------------------ mod.rs
\* step 1 dropping the value read: the default prototype in every case
get_prototype_from_constructor_default_only(new_target, ctx) ==
    IF ~is_object(new_target)
    THEN [res |-> Ok(DefaultProto), log |-> Append(ctx, "default_proto")]
    ELSE LET got == get_prototype_property(new_target)
             ctx1 == Append(ctx, "get_prototype")
         IN IF got.status # "Ok" THEN [res |-> got, log |-> ctx1]
            ELSE [res |-> Ok(DefaultProto), log |-> Append(ctx1, "default_proto")]

\* step 1 with the failure of the read dropped (`.ok()` in place of `?`)
get_prototype_from_constructor_swallowing(new_target, ctx) ==
    IF ~is_object(new_target)
    THEN [res |-> Ok(DefaultProto), log |-> Append(ctx, "default_proto")]
    ELSE LET got == get_prototype_property(new_target)
             ctx1 == Append(ctx, "get_prototype")
         IN IF got.status = "Ok" /\ got.value.type = "object"
            THEN [res |-> Ok(got.value.object), log |-> ctx1]
            ELSE [res |-> Ok(DefaultProto), log |-> Append(ctx1, "default_proto")]

\* allocate_typed_array, step 1: the prototype of the new object.  `ctx` is
\* the sequence of collaborator calls made so far; the result carries the
\* extended sequence.  A construction target that is no object is not queried.
get_prototype_from_constructor(new_target, ctx) ==
    IF ~is_object(new_target)
    THEN [res |-> Ok(DefaultProto), log |-> Append(ctx, "default_proto")]
    ELSE LET got == get_prototype_property(new_target)
             ctx1 == Append(ctx, "get_prototype")
         IN IF got.status # "Ok" THEN [res |-> got, log |-> ctx1]
            ELSE IF got.value.type = "object"
            THEN [res |-> Ok(got.value.object), log |-> ctx1]
            ELSE [res |-> Ok(DefaultProto), log |-> Append(ctx1, "default_proto")]

\* allocate_typed_array
allocate_typed_array(constructor_name, new_target, length, checks, ctx) ==
    LET proto == get_prototype_from_constructor(new_target, ctx)
    IN IF proto.res.status # "Ok" THEN proto
       ELSE IF ~length.some
       THEN [ res |-> Ok(JsTypedArray(IntegerIndexedObject_new(proto.res.value,
                                                               constructor_name))),
              log |-> Append(proto.log, "IntegerIndexedObject::new") ]
       ELSE LET obj == allocate_typed_array_buffer(proto.res.value, constructor_name,
                                                   length.val, checks)
            IN [ res |-> IF obj.status = "Ok" THEN Ok(JsTypedArray(obj.value))
                         ELSE obj,
                 log |-> Append(proto.log, "allocate_typed_array_buffer") ]

\* ------------------------------------------------------------ int8_array.rs
\* Int8Array::constructor, steps 2 to 6 (a construction target is given)
construct(new_target, args, checks) ==
    IF Len(args) = 0
    THEN allocate_typed_array("Int8Array", new_target, Some(0), checks, <<>>)
    ELSE LET first_argument == args[1] IN
      IF is_object(first_argument)
      THEN LET o == allocate_typed_array("Int8Array", new_target, None, checks, <<>>)
           IN IF o.res.status # "Ok" THEN o
              ELSE IF is_typed_array(first_argument)
              THEN [res |-> o.res, log |-> o.log \o <<"is_typed_array", "typed_array_path">>]
              ELSE IF is_array_buffer(first_argument)
              THEN [res |-> o.res,
                    log |-> o.log \o <<"is_typed_array", "is_array_buffer",
                                       "array_buffer_path">>]
              ELSE LET using_iterator == get_method(first_argument, "@@replace")
                       ctx == o.log \o <<"is_typed_array", "is_array_buffer",
                                         "get_method(@@replace)">>
                   IN IF using_iterator.status # "Ok"
                      THEN [res |-> using_iterator, log |-> ctx]
                      ELSE IF ~is_undefined(using_iterator.value)
                      THEN [res |-> o.res, log |-> Append(ctx, "iterable_path")]
                      ELSE [res |-> o.res, log |-> Append(ctx, "array_like_path")]
      ELSE LET element_length == to_index(first_argument)
           IN IF element_length.status # "Ok"
              THEN [res |-> element_length, log |-> <<"to_index">>]
              ELSE allocate_typed_array("Int8Array", new_target,
                                        Some(element_length.value), checks,
                                        <<"to_index">>)

\* Int8Array::constructor without step 1
constructor_unchecked(new_target, args, checks) ==
    construct(new_target, args, checks)

\* Int8Array::constructor
constructor(new_target, args, checks) ==
    IF is_undefined(new_target)
    THEN [res |-> Err("TypeError", "new_target"), log |-> <<>>]
    ELSE construct(new_target, args, checks)

\* ------------------------------------------------------------------ inputs
NewTargets ==
    { JsUndefined, JsNumber(2) }
    \cup { JsFunction(p) : p \in {"throws", "object", "nonobject"} }

Numbers == { JsNumber(h) : h \in -2 .. 2 * (MaxSafeInteger + 1) }

SourceViews ==
    { JsTypedArray([ prototype |-> DefaultProto,
                     typed_array_name |-> n,
                     content_type |-> IF n \in {"BigInt64Array", "BigUint64Array"}
                                      THEN "BigInt" ELSE "Number",
                     viewed_array_buffer |-> [inner |-> Zeros(element_size(n) * l)],
                     byte_length |-> element_size(n) * l,
                     byte_offset |-> 0,
                     array_length |-> l ])
      : n \in TypedArrayName, l \in {0, 1} }

Buffers == { JsArrayBuffer(n) : n \in {0, BufferLen} }

Lookups == {"absent", "present", "throws"}

ArrayLikes ==
    { JsOrdinary(it, rp, e) : it \in Lookups, rp \in Lookups,
                              e \in { <<>>, [i \in 1..MaxSrcLen |-> i] } }

FirstArguments ==
    {JsUndefined, JsSymbol, JsInfinity} \cup Numbers \cup SourceViews
        \cup Buffers \cup ArrayLikes

RestArguments ==
    { <<>>, <<JsNumber(0)>>, <<JsNumber(4)>>, <<JsNumber(4), JsNumber(2 * MaxSrcLen)>> }

ArgumentLists == { <<>> } \cup { <<f>> \o r : f \in FirstArguments, r \in RestArguments }

Lengths == {None} \cup { Some(n) : n \in 0 .. UsizeLimit - 1 }

\* ------------------------------------------------------------------- state
VARIABLES
    overflow_checks,  \* build profile: TRUE = overflow checks on (debug)
    op,               \* the operation last called
    constructor_name, \* its kind
    new_target,       \* its construction target
    args,             \* the constructor's argument list
    length,           \* allocate_typed_array's optional length
    result,           \* what it returned (Ok / Err / Panic)
    log               \* the collaborator calls it made, in order

vars == <<overflow_checks, op, constructor_name, new_target, args, length, result, log>>

Init ==
    /\ overflow_checks \in BOOLEAN
    /\ op = "none"
    /\ constructor_name = "Int8Array"
    /\ new_target = JsUndefined
    /\ args = <<>>
    /\ length = None
    /\ result = Ok("none")
    /\ log = <<>>

\* a call of `new Int8Array(...args)` or of Int8Array(...args)
CallConstructor ==
    \E nt \in NewTargets, a \in ArgumentLists :
        LET r == constructor(nt, a, overflow_checks)
        IN /\ op = "none"
           /\ op' = "constructor"
           /\ constructor_name' = "Int8Array"
           /\ new_target' = nt
           /\ args' = a
           /\ length' = None
           /\ result' = r.res
           /\ log' = r.log
           /\ UNCHANGED overflow_checks

\* a call of allocate_typed_array for any kind, as each kind's constructor makes
CallAllocateTypedArray ==
    \E n \in TypedArrayName, nt \in NewTargets \ {JsUndefined}, l \in Lengths :
        LET r == allocate_typed_array(n, nt, l, overflow_checks, <<>>)
        IN /\ op = "none"
           /\ op' = "allocate_typed_array"
           /\ constructor_name' = n
           /\ new_target' = nt
           /\ args' = <<>>
           /\ length' = l
           /\ result' = r.res
           /\ log' = r.log
           /\ UNCHANGED overflow_checks

\* the caller takes the result; nothing of the call outlives it
Return ==
    /\ op # "none"
    /\ op' = "none"
    /\ constructor_name' = "Int8Array"
    /\ new_target' = JsUndefined
    /\ args' = <<>>
    /\ length' = None
    /\ result' = Ok("none")
    /\ log' = <<>>
    /\ UNCHANGED overflow_checks

Next == CallConstructor \/ CallAllocateTypedArray \/ Return

Spec == Init /\ [][Next]_vars

\* ------------------------------------------------------------- properties
InLog(e) == \E i \in 1..Len(log) : log[i] = e
\* every occurrence of `a` in the log precedes every occurrence of `b`
Precedes(a, b) ==
    \A i, j \in 1..Len(log) : (log[i] = a /\ log[j] = b) => i < j
Returned == result.status = "Ok"
View == result.value.view
FirstIs(class) ==
    /\ Len(args) > 0
    /\ is_object(args[1])
    /\ args[1].class = class
\* the construction target is given and its "prototype" read does not fail
TargetUsable ==
    /\ ~is_undefined(new_target)
    /\ (is_object(new_target) => new_target.proto # "throws")
Inspections ==
    {"is_typed_array", "is_array_buffer", "get_method(@@replace)", "get_method(@@iterator)"}

\* C1: a constructor call whose construction target is undefined returns a
\* TypeError whatever the arguments are, and makes no collaborator call before
\* it: no prototype read, no ToIndex, no method lookup, no allocation.
C1_UndefinedNewTargetIsTypeError ==
    (op = "constructor" /\ is_undefined(new_target))
        => /\ result.status = "Err"
           /\ result.error = "TypeError"
           /\ result.origin = "new_target"
           /\ log = <<>>

C1_Witness ==
    /\ op = "constructor"
    /\ is_undefined(new_target)
    /\ FirstIs("ordinary")
    /\ args[1].replace = "throws"
    /\ result.error = "TypeError"

\* C2: on the constructor's length path (no arguments, or a first argument that
\* is no object and that ToIndex converts to n) a call that returns gives a view
\* with array_length = n, byte_length = n * element_size, byte_offset = 0, over
\* a data block of exactly byte_length bytes, all zero.
C2_LengthPathView ==
    (op = "constructor" /\ Returned /\ (Len(args) = 0 \/ ~is_object(args[1])))
        => LET n == IF Len(args) = 0 THEN 0 ELSE to_index(args[1]).value
           IN /\ View.array_length = n
              /\ View.byte_length = n * element_size(constructor_name)
              /\ View.byte_offset = 0
              /\ Len(View.viewed_array_buffer.inner) = View.byte_length
              /\ \A i \in 1..Len(View.viewed_array_buffer.inner) :
                     View.viewed_array_buffer.inner[i] = 0

C2_Witness ==
    /\ op = "constructor"
    /\ args = <<JsNumber(11)>>
    /\ Returned
    /\ View.array_length = 5
    /\ View.byte_length = 5
    /\ View.viewed_array_buffer.inner = <<0, 0, 0, 0, 0>>

\* C3: allocation with a fresh buffer of a length whose byte size
\* element_size * n exceeds the usize range fails with a RangeError (and so
\* returns no view and does not abort).
C3_OverflowIsRangeError ==
    ( /\ op = "allocate_typed_array"
      /\ TargetUsable
      /\ length.some
      /\ element_size(constructor_name) * length.val >= UsizeLimit )
        => (result.status = "Err" /\ result.error = "RangeError")

\* C4: a first argument that is a typed array of the other content type makes
\* the constructor fail with a TypeError.
C4_ContentTypeMismatchIsTypeError ==
    ( /\ op = "constructor"
      /\ TargetUsable
      /\ FirstIs("typed_array")
      /\ args[1].view.content_type # "Number" )
        => (result.status = "Err" /\ result.error = "TypeError")

\* C5: over an ArrayBuffer first argument, with an aligned byte offset and a
\* length that fit in the buffer, the constructor returns a view with that
\* byte_offset, that array_length and byte_length = array_length * element_size.
C5_ViewOverBuffer ==
    ( /\ op = "constructor"
      /\ TargetUsable
      /\ FirstIs("array_buffer")
      /\ Len(args) = 3
      /\ to_index(args[2]).status = "Ok"
      /\ to_index(args[3]).status = "Ok"
      /\ to_index(args[2]).value % element_size(constructor_name) = 0
      /\ to_index(args[2]).value
           + to_index(args[3]).value * element_size(constructor_name)
             <= args[1].byte_length )
        => /\ Returned
           /\ View.byte_offset = to_index(args[2]).value
           /\ View.array_length = to_index(args[3]).value
           /\ View.byte_length = to_index(args[3]).value * element_size(constructor_name)

\* C6: an object first argument that is neither a typed array nor an
\* ArrayBuffer and has no @@iterator method is copied as an array-like: the
\* view has its length and its elements in order.
C6_ArrayLikeCopied ==
    ( /\ op = "constructor"
      /\ TargetUsable
      /\ FirstIs("ordinary")
      /\ args[1].iterator = "absent"
      /\ args[1].replace = "absent" )
        => /\ Returned
           /\ View.array_length = Len(args[1].elems)
           /\ View.viewed_array_buffer.inner = args[1].elems

\* C7: every view either creation path returns has the content type its kind
\* fixes: BigInt for BigInt64Array and BigUint64Array, Number for the other nine.
C7_ContentTypeByKind ==
    (op # "none" /\ Returned)
        => /\ View.typed_array_name = constructor_name
           /\ View.content_type =
                IF constructor_name \in {"BigInt64Array", "BigUint64Array"}
                THEN "BigInt" ELSE "Number"

C7_Witness ==
    /\ op = "allocate_typed_array"
    /\ ~length.some
    /\ constructor_name = "BigUint64Array"
    /\ Returned
    /\ View.content_type = "BigInt"

\* C8: allocate_typed_array reads the construction target's "prototype"
\* property: a failing read is returned, with no view built and the default
\* prototype provider not called; an object read becomes the view's prototype;
\* any other value read makes the provider's result the view's prototype.
C8_PrototypeResolution ==
    (op = "allocate_typed_array" /\ is_object(new_target))
        => /\ new_target.proto = "throws"
                => /\ result = Err("Thrown", "get_prototype")
                   /\ log = <<"get_prototype">>
           /\ (new_target.proto = "object" /\ Returned)
                => /\ View.prototype = CustomProto
                   /\ ~InLog("default_proto")
           /\ (new_target.proto = "nonobject" /\ Returned)
                => /\ View.prototype = DefaultProto
                   /\ InLog("default_proto")

C8_Witness ==
    /\ op = "allocate_typed_array"
    /\ is_object(new_target)
    /\ new_target.proto = "object"
    /\ length.some
    /\ Returned
    /\ View.prototype = CustomProto

\* C9: the constructor's steps run in order and the first failure is the
\* result.  A first argument that is no object is converted by ToIndex before
\* the prototype is read, and a failing ToIndex is returned with the prototype
\* never read; with an object first argument the prototype is read before the
\* first argument is inspected, and a failing read is returned with no
\* inspection made.  A failure is the last step made, and is the result.
C9_FirstFailureWins ==
    (op = "constructor" /\ ~is_undefined(new_target) /\ Len(args) > 0)
        => /\ ~is_object(args[1])
                => /\ log[1] = "to_index"
                   /\ Precedes("to_index", "get_prototype")
                   /\ to_index(args[1]).status # "Ok"
                        => (result = to_index(args[1]) /\ log = <<"to_index">>)
           /\ is_object(args[1])
                => /\ \A e \in Inspections : Precedes("get_prototype", e)
                   /\ (is_object(new_target) /\ new_target.proto = "throws")
                        => /\ result = Err("Thrown", "get_prototype")
                           /\ log = <<"get_prototype">>
                   /\ (is_object(new_target) /\ \E e \in Inspections : InLog(e))
                        => log[1] = "get_prototype"
           /\ result.status = "Err"
                => /\ Len(log) > 0
                   /\ CASE result.origin = "to_index" -> log[Len(log)] = "to_index"
                        [] result.origin = "get_prototype" -> log[Len(log)] = "get_prototype"
                        [] result.origin = "get_method" ->
                             log[Len(log)] = "get_method(@@replace)"
                        [] OTHER -> FALSE

C9_Witness ==
    /\ op = "constructor"
    /\ is_object(new_target)
    /\ new_target.proto = "throws"
    /\ FirstIs("ordinary")
    /\ args[1].replace = "throws"
    /\ result = Err("Thrown", "get_prototype")

\* C10: for an object first argument that is neither a typed array nor an
\* ArrayBuffer, the @@iterator method alone decides: present, the iterable
\* path; absent, the array-like path; a failing lookup is the result.
C10_IteratorDecidesPath ==
    (op = "constructor" /\ TargetUsable /\ FirstIs("ordinary"))
        => /\ args[1].iterator = "present" => InLog("iterable_path")
           /\ args[1].iterator = "absent" => InLog("array_like_path")
           /\ args[1].iterator = "throws" => result = Err("Thrown", "get_method")

====
